---------------------------- MODULE Spec2Model ----------------------------
(***************************************************************************)
(* Model of the six base-N codecs (Base16/32/58/62/64/85) of               *)
(* src/src/encod_func.c, src/src/decod_func.c and src/src/tables.c.        *)
(*                                                                         *)
(* Bytes and characters are integers 0..255 (characters by ASCII code).    *)
(* A C buffer (pointer, length) is a sequence; C index i is TLA+ index     *)
(* i+1.  The C operators are modelled arithmetically:                      *)
(*    x >> k  is  x \div 2^k,   x & (2^k - 1)  is  x % 2^k,                *)
(*    x << k  is  x * 2^k (reduced modulo 2^w for a w-bit unsigned type),  *)
(*    a | b   is  a + b where the operands have no bit in common.          *)
(* A C integer of 32 bits or more is held as a record of limbs, [hi, lo],  *)
(* standing for hi * 2^16 + lo (2^20 for the 64-bit value of               *)
(* base32_decode), so that no intermediate value leaves the range of the   *)
(* model checker's integers; the limb operations are exact.                *)
(* malloc/calloc/realloc are taken to succeed (a request of size 0         *)
(* included, as with the C libraries the build scripts target).            *)
(***************************************************************************)
EXTENDS Integers, Naturals, Sequences, FiniteSets, TLC

(***************************************************************************)
(* Bounds of the model.                                                    *)
(***************************************************************************)
MaxLen == 5      \* longest payload handed to an encoder
MaxTextLen == 5  \* longest text handed directly to a decoder

(***************************************************************************)
(* Alphabet tables, src/src/tables.c (without the terminating NUL).        *)
(***************************************************************************)
base16_table ==
  <<48, 49, 50, 51, 52, 53, 54, 55, 56, 57, 65, 66, 67, 68, 69, 70>>

base32_table ==
  <<65, 66, 67, 68, 69, 70, 71, 72, 73, 74, 75, 76, 77, 78, 79, 80, 81, 82,
    83, 84, 85, 86, 87, 88, 89, 90, 50, 51, 52, 53, 54, 55>>

base58_table ==
  <<49, 50, 51, 52, 53, 54, 55, 56, 57, 65, 66, 67, 68, 69, 70, 71, 72, 74,
    75, 76, 77, 78, 80, 81, 82, 83, 84, 85, 86, 87, 88, 89, 90, 97, 98, 99,
    100, 101, 102, 103, 104, 105, 106, 107, 109, 110, 111, 112, 113, 114,
    115, 116, 117, 118, 119, 120, 121, 122>>

base62_table ==
  <<48, 49, 50, 51, 52, 53, 54, 55, 56, 57, 65, 66, 67, 68, 69, 70, 71, 72,
    73, 74, 75, 76, 77, 78, 79, 80, 81, 82, 83, 84, 85, 86, 87, 88, 89, 90,
    97, 98, 99, 100, 101, 102, 103, 104, 105, 106, 107, 108, 109, 110, 111,
    112, 113, 114, 115, 116, 117, 118, 119, 120, 121, 122>>

base64_table ==
  <<65, 66, 67, 68, 69, 70, 71, 72, 73, 74, 75, 76, 77, 78, 79, 80, 81, 82,
    83, 84, 85, 86, 87, 88, 89, 90, 97, 98, 99, 100, 101, 102, 103, 104, 105,
    106, 107, 108, 109, 110, 111, 112, 113, 114, 115, 116, 117, 118, 119,
    120, 121, 122, 48, 49, 50, 51, 52, 53, 54, 55, 56, 57, 43, 47>>

\* The table of tables.c line 8 runs from '!' (33) to 'z' (122): 90 symbols.
base85_table == [i \in 1..90 |-> 32 + i]

\* The encoder's private copy of the Base16 alphabet (encod_func.c line 38).
base16_chars ==
  <<48, 49, 50, 51, 52, 53, 54, 55, 56, 57, 65, 66, 67, 68, 69, 70>>

PadChar == 61   \* '='
NUL == 0

(***************************************************************************)
(* Small helpers for C library calls and C arithmetic.                     *)
(***************************************************************************)
RECURSIVE Pow2(_)
Pow2(k) == IF k = 0 THEN 1 ELSE 2 * Pow2(k - 1)

Pow16 == Pow2(16)

\* U32Shl8Or for an accumulator of 8 bits only (unsigned char val).
U32Shl8Or_narrow(v, b) == [hi |-> 0, lo |-> (v.lo * 256 + b) % 256]

\* uint32_t / unsigned int arithmetic on limbs [hi, lo], value hi*2^16 + lo.
\* (v << 8) | b, reduced modulo 2^32.
U32Shl8Or(v, b) ==
  [hi |-> (v.hi * 256 + v.lo \div 256) % Pow16, lo |-> (v.lo * 256 + b) % Pow16]

\* The low 16 bits of v >> s, for 0 <= s <= 16.
U32ShrLow16(v, s) == ((v.hi % Pow2(s)) * Pow2(16 - s) + v.lo \div Pow2(s)) % Pow16

\* value % 85 and value / 85 by long division over the limbs.
U32DivMod85(v) ==
  LET t == (v.hi % 85) * Pow16 + v.lo
  IN  [q |-> [hi |-> v.hi \div 85, lo |-> t \div 85], r |-> t % 85]

\* k copies of the character c (memset).
Fill(c, k) == [i \in 1..k |-> c]

Reverse(s) == [i \in 1..Len(s) |-> s[Len(s) - i + 1]]

\* find_index with the character folded to upper case before the scan.
find_index_nocase(c, table) ==
  LET u == IF c \in 97..122 THEN c - 32 ELSE c
  IN  IF \E i \in 1..Len(table) : table[i] = u
      THEN (CHOOSE i \in 1..Len(table) :
              table[i] = u /\ \A k \in 1..(i - 1) : table[k] # u) - 1
      ELSE -1

\* find_index: the scan stops at the table's NUL before comparing, so the
\* NUL character is never found.
find_index(c, table) ==
  IF \E i \in 1..Len(table) : table[i] = c
  THEN (CHOOSE i \in 1..Len(table) :
          table[i] = c /\ \A k \in 1..(i - 1) : table[k] # c) - 1
  ELSE -1

\* strchr(table, c) - table, or -1 for a NULL result: strchr regards the
\* terminating NUL as part of the string, so c = NUL is found at its end.
strchr_index(table, c) ==
  IF c = NUL THEN Len(table) ELSE find_index(c, table)

\* strncpy(dst, src, len): copying stops at the first NUL of src and the
\* remainder of the len bytes is filled with NUL.
strncpy(src) ==
  [i \in 1..Len(src) |->
     IF \E k \in 1..i : src[k] = NUL THEN NUL ELSE src[i]]

\* while (padded_len % g != 0) padded_len++;
PaddedLen(len, g) == ((len + g - 1) \div g) * g

(***************************************************************************)
(* Base16, encod_func.c 36-50 and decod_func.c 44-81.                      *)
(***************************************************************************)
\* base16_encode with the two nibbles of a byte emitted in the wrong order.
base16_encode_lowfirst(input) ==
  [k \in 1..(2 * Len(input)) |->
     LET b == input[(k + 1) \div 2]
     IN  IF k % 2 = 1 THEN base16_chars[(b % 16) + 1]
                      ELSE base16_chars[((b \div 16) % 16) + 1]]

base16_encode(input) ==
  [k \in 1..(2 * Len(input)) |->
     LET b == input[(k + 1) \div 2]
     IN  IF k % 2 = 1 THEN base16_chars[((b \div 16) % 16) + 1]
                      ELSE base16_chars[(b % 16) + 1]]

RECURSIVE base16_decode_loop(_, _, _)
base16_decode_loop(input, i, output) ==
  IF i >= Len(input)
  THEN [ret |-> "ok", out |-> output, len |-> -1, oob |-> FALSE]
  ELSE LET high_nibble == find_index(input[i + 1], base16_table)
           low_nibble  == find_index(input[i + 2], base16_table)
       IN  IF high_nibble = -1 \/ low_nibble = -1
           THEN [ret |-> "null", out |-> output, len |-> -1, oob |-> FALSE]
           ELSE base16_decode_loop(input, i + 2,
                                   Append(output, high_nibble * 16 + low_nibble))

\* The decoders return a record: ret is "ok" (a buffer is returned) or "null";
\* out is the bytes written into the returned buffer below the reported
\* length; len is the value stored in *output_len (len0, the caller's value,
\* when the call stores nothing; -1 for base16_decode, which has no such
\* parameter); oob tells whether a byte was stored beyond the allocation.
base16_decode(input) ==
  IF Len(input) % 2 # 0
  THEN [ret |-> "null", out |-> <<>>, len |-> -1, oob |-> FALSE]
  ELSE base16_decode_loop(input, 0, <<>>)

(***************************************************************************)
(* Base32, encod_func.c 70-88 and decod_func.c 86-161.                     *)
(***************************************************************************)
\* while (bit_count >= 5) { output[j++] = ...; bit_count -= 5; }
RECURSIVE base32_emit(_, _, _)
base32_emit(val, bit_count, output) ==
  IF bit_count >= 5
  THEN base32_emit(val, bit_count - 5,
         Append(output,
                base32_table[(U32ShrLow16(val, bit_count - 5) % 32) + 1]))
  ELSE [bit_count |-> bit_count, output |-> output]

RECURSIVE base32_encode_loop(_, _, _, _, _)
base32_encode_loop(input, i, val, bit_count, output) ==
  IF i >= Len(input)
  THEN IF bit_count > 0
       THEN Append(output,
                   base32_table[((val.lo * Pow2(5 - bit_count)) % 32) + 1])
       ELSE output
  ELSE LET v == U32Shl8Or(val, input[i + 1])   \* unsigned int val
           e == base32_emit(v, bit_count + 8, output)
       IN  base32_encode_loop(input, i + 1, v, e.bit_count, e.output)

base32_encode(input) ==
  base32_encode_loop(input, 0, [hi |-> 0, lo |-> 0], 0, <<>>)

\* The bytes one 8-symbol group contributes (decod_func.c 138-155); g is the
\* group of padded_input, idx its indices[] array.
base32_group_bytes(g, idx) ==
  \* uint64_t value = hi * 2^20 + lo: indices[j] << (35 - 5j), j = 0..7
  LET hi == idx[1] * Pow2(15) + idx[2] * Pow2(10) + idx[3] * 32 + idx[4]
      lo == idx[5] * Pow2(15) + idx[6] * Pow2(10) + idx[7] * 32 + idx[8]
  IN  <<(hi \div Pow2(12)) % 256>>                          \* value >> 32
      \o (IF g[3] # PadChar THEN <<(hi \div 16) % 256>> ELSE <<>>)   \* >> 24
      \o (IF g[5] # PadChar
          THEN <<(hi % 16) * 16 + ((lo \div Pow16) % 16)>> ELSE <<>>)  \* >> 16
      \o (IF g[6] # PadChar THEN <<(lo \div 256) % 256>> ELSE <<>>)  \* >> 8
      \o (IF g[7] # PadChar THEN <<lo % 256>> ELSE <<>>)

\* indices[j] of a group over the given table: 0 for '=', else find_index.
GroupIndices(g, table) ==
  [j \in 1..Len(g) |-> IF g[j] = PadChar THEN 0 ELSE find_index(g[j], table)]

RECURSIVE base32_decode_loop(_, _, _, _)
base32_decode_loop(padded_input, i, output, len0) ==
  IF i >= Len(padded_input)
  THEN [ret |-> "ok", out |-> output, len |-> Len(output), oob |-> FALSE]
  ELSE LET g   == SubSeq(padded_input, i + 1, i + 8)
           idx == GroupIndices(g, base32_table)
       IN  IF \E j \in 1..8 : idx[j] = -1
           THEN [ret |-> "null", out |-> <<>>, len |-> len0, oob |-> FALSE]
           ELSE base32_decode_loop(padded_input, i + 8,
                                   output \o base32_group_bytes(g, idx), len0)

base32_decode(input, len0) ==
  LET padded_len   == PaddedLen(Len(input), 8)
      padded_input == strncpy(input) \o Fill(PadChar, padded_len - Len(input))
  IN  base32_decode_loop(padded_input, 0, <<>>, len0)

(***************************************************************************)
(* Base64, encod_func.c 228-250 and decod_func.c 338-408.                  *)
(***************************************************************************)
RECURSIVE base64_encode_loop(_, _, _)
base64_encode_loop(input, i, output) ==
  IF i >= Len(input) THEN output
  ELSE LET len == Len(input)
           b1  == IF i + 1 < len THEN input[i + 2] ELSE 0
           b2  == IF i + 2 < len THEN input[i + 3] ELSE 0
           val == input[i + 1] * 65536 + b1 * 256 + b2
       IN  base64_encode_loop(input, i + 3,
             output \o
             << base64_table[((val \div Pow2(18)) % 64) + 1],
                base64_table[((val \div Pow2(12)) % 64) + 1],
                IF i + 1 < len THEN base64_table[((val \div 64) % 64) + 1]
                               ELSE PadChar,
                IF i + 2 < len THEN base64_table[(val % 64) + 1]
                               ELSE PadChar >>)

\* base64_encode with the missing symbols emitted as digit 0, not as '='.
base64_encode_nopad(input) ==
  LET t == base64_encode_loop(input, 0, <<>>)
  IN  [i \in 1..Len(t) |-> IF t[i] = PadChar THEN base64_table[1] ELSE t[i]]

base64_encode(input) == base64_encode_loop(input, 0, <<>>)

\* base64_group_bytes without the two tests for the pad symbol.
base64_group_bytes_always3(g, idx) ==
  LET value == idx[1] * Pow2(18) + idx[2] * Pow2(12) + idx[3] * 64 + idx[4]
  IN  <<(value \div 65536) % 256, (value \div 256) % 256, value % 256>>

\* base64_group_bytes with the third byte keyed off symbol 3, not symbol 4.
base64_group_bytes_pad3(g, idx) ==
  LET value == idx[1] * Pow2(18) + idx[2] * Pow2(12) + idx[3] * 64 + idx[4]
  IN  <<(value \div 65536) % 256>>
      \o (IF g[3] # PadChar THEN <<(value \div 256) % 256>> ELSE <<>>)
      \o (IF g[3] # PadChar THEN <<value % 256>> ELSE <<>>)

base64_group_bytes(g, idx) ==
  LET value == idx[1] * Pow2(18) + idx[2] * Pow2(12) + idx[3] * 64 + idx[4]
  IN  <<(value \div 65536) % 256>>
      \o (IF g[3] # PadChar THEN <<(value \div 256) % 256>> ELSE <<>>)
      \o (IF g[4] # PadChar THEN <<value % 256>> ELSE <<>>)

RECURSIVE base64_decode_loop(_, _, _, _)
base64_decode_loop(padded_input, i, output, len0) ==
  IF i >= Len(padded_input)
  THEN [ret |-> "ok", out |-> output, len |-> Len(output), oob |-> FALSE]
  ELSE LET g   == SubSeq(padded_input, i + 1, i + 4)
           idx == GroupIndices(g, base64_table)
       IN  IF \E j \in 1..4 : idx[j] = -1
           THEN [ret |-> "null", out |-> <<>>, len |-> len0, oob |-> FALSE]
           ELSE base64_decode_loop(padded_input, i + 4,
                                   output \o base64_group_bytes(g, idx), len0)

base64_decode(input, len0) ==
  LET padded_len   == PaddedLen(Len(input), 4)
      padded_input == strncpy(input) \o Fill(PadChar, padded_len - Len(input))
  IN  base64_decode_loop(padded_input, 0, <<>>, len0)

(***************************************************************************)
(* Base58, encod_func.c 110-154 and decod_func.c 166-234.                  *)
(***************************************************************************)
\* Number of leading characters of s equal to c (both zero-counting loops).
RECURSIVE LeadingCount(_, _)
LeadingCount(s, c) ==
  IF s # <<>> /\ Head(s) = c THEN 1 + LeadingCount(Tail(s), c) ELSE 0

\* for (k = 0; k < j; k++) { carry += 256 * result[k];
\*                           result[k] = carry % 58; carry /= 58; }
RECURSIVE base58_encode_mul(_, _, _)
base58_encode_mul(result, k, carry) ==
  IF k >= Len(result) THEN [result |-> result, carry |-> carry]
  ELSE LET c == carry + 256 * result[k + 1]
       IN  base58_encode_mul([result EXCEPT ![k + 1] = c % 58], k + 1,
                             c \div 58)

\* while (carry > 0) { result[j++] = carry % 58; carry /= 58; }
RECURSIVE base58_encode_flush(_, _)
base58_encode_flush(result, carry) ==
  IF carry > 0
  THEN base58_encode_flush(Append(result, carry % 58), carry \div 58)
  ELSE result

\* The main loop; result holds the digits result[0..j-1], so j = Len(result).
RECURSIVE base58_encode_loop(_, _, _)
base58_encode_loop(input, i, result) ==
  IF i >= Len(input) THEN result
  ELSE LET m == base58_encode_mul(result, 0, input[i + 1])
       IN  base58_encode_loop(input, i + 1,
                              base58_encode_flush(m.result, m.carry))

\* The digit array after the main loop.  The leading-zero loop leaves
\* j = i = the number of leading zero bytes, and result is calloc'ed, so the
\* main loop starts with that many zero digits already counted in j.
base58_encode_digits(input) ==
  LET z == LeadingCount(input, 0)
  IN  base58_encode_loop(input, z, Fill(0, z))

\* base58_encode without the reversal of the little-endian digits.
base58_encode_le(input) ==
  LET result == base58_encode_digits(input)
  IN  [i \in 1..Len(result) |-> base58_table[result[i] + 1]]

\* output[0..z-1] = '1' is written first; the final loop then stores
\* output[i] for every i < output_len = j (j >= z) and the terminator at
\* output_len, so none of the '1' written first is left in the string.
base58_encode(input) ==
  LET result     == base58_encode_digits(input)
      output_len == Len(result)
  IN  [i \in 1..output_len |-> base58_table[result[output_len - i + 1] + 1]]

\* for (j = 0; j < output_size; j++) { carry += output[j] * 58;
\*                                     output[j] = carry % 256; carry /= 256; }
RECURSIVE base58_decode_mul(_, _, _)
base58_decode_mul(output, j, carry) ==
  IF j >= Len(output) THEN [output |-> output, carry |-> carry]
  ELSE LET c == carry + output[j + 1] * 58
       IN  base58_decode_mul([output EXCEPT ![j + 1] = c % 256], j + 1,
                             c \div 256)

\* while (carry > 0) { output[output_size++] = carry % 256; carry /= 256; }
RECURSIVE base58_decode_flush(_, _)
base58_decode_flush(output, carry) ==
  IF carry > 0
  THEN base58_decode_flush(Append(output, carry % 256), carry \div 256)
  ELSE output

\* The symbol loop; output holds output[0..output_size-1].  Returns the
\* little-endian bytes, or failed on a character find_index does not know.
RECURSIVE base58_decode_loop(_, _, _)
base58_decode_loop(input, i, output) ==
  IF i >= Len(input) THEN [failed |-> FALSE, output |-> output]
  ELSE LET carry == find_index(input[i + 1], base58_table)
       IN  IF carry = -1 THEN [failed |-> TRUE, output |-> output]
           ELSE LET m == base58_decode_mul(output, 0, carry)
                IN  base58_decode_loop(input, i + 1,
                                       base58_decode_flush(m.output, m.carry))

\* The zero prefix is put in front of the little-endian bytes (memmove and
\* memset) and then the whole buffer is reversed (decod_func.c 214-229).
base58_decode_finish(output, zero_count) ==
  Reverse(IF zero_count > 0 THEN Fill(0, zero_count) \o output ELSE output)

base58_decode(input, len0) ==
  LET len        == Len(input)
      zero_count == LeadingCount(input, base58_table[1])
      size       == ((len - zero_count) * 733) \div 1000 + 1
      r          == base58_decode_loop(input, zero_count, <<>>)
      final      == base58_decode_finish(r.output, zero_count)
      output_size == Len(final)
      \* bytes allocated when output[output_size] = '\0' is stored
      allocated  == IF zero_count > 0 THEN output_size ELSE size
  IN  IF r.failed
      THEN [ret |-> "null", out |-> <<>>, len |-> 0, oob |-> FALSE]
      ELSE [ret |-> "ok", out |-> final, len |-> output_size,
            oob |-> (Len(r.output) > size) \/ (output_size >= allocated)]

(***************************************************************************)
(* Base62, encod_func.c 171-208 and decod_func.c 239-333.                  *)
(***************************************************************************)
RECURSIVE base62_encode_mul(_, _, _)
base62_encode_mul(result, k, carry) ==
  IF k >= Len(result) THEN [result |-> result, carry |-> carry]
  ELSE LET c == carry + 256 * result[k + 1]
       IN  base62_encode_mul([result EXCEPT ![k + 1] = c % 62], k + 1,
                             c \div 62)

RECURSIVE base62_encode_flush(_, _)
base62_encode_flush(result, carry) ==
  IF carry > 0
  THEN base62_encode_flush(Append(result, carry % 62), carry \div 62)
  ELSE result

RECURSIVE base62_encode_loop(_, _, _)
base62_encode_loop(input, i, result) ==
  IF i >= Len(input) THEN result
  ELSE LET m == base62_encode_mul(result, 0, input[i + 1])
       IN  base62_encode_loop(input, i + 1,
                              base62_encode_flush(m.result, m.carry))

\* for (i = 0, j = 0; ...): no digit exists before the first non-zero carry.
base62_encode_digits(input) == base62_encode_loop(input, 0, <<>>)

base62_encode(input) ==
  LET result     == base62_encode_digits(input)
      output_len == Len(result)
  IN  [i \in 1..output_len |-> base62_table[result[output_len - i + 1] + 1]]

\* The growable buffer is the record [buffer, cap]: buffer is
\* buffer[0..buffer_len-1], cap is buffer_capacity.
\* for (j = 0; j < buffer_len; ++j) { temp = buffer[j] * 62 + carry; ... }
RECURSIVE base62_decode_mul(_, _, _)
base62_decode_mul(buffer, j, carry) ==
  IF j >= Len(buffer) THEN [buffer |-> buffer, carry |-> carry]
  ELSE LET temp == buffer[j + 1] * 62 + carry
       IN  base62_decode_mul([buffer EXCEPT ![j + 1] = temp % 256], j + 1,
                             temp \div 256)

\* for (j = 0; j < buffer_len; ++j) { temp = buffer[j] + carry; ...
\*                                    if (carry == 0) break; }
RECURSIVE base62_decode_add(_, _, _)
base62_decode_add(buffer, j, carry) ==
  IF j >= Len(buffer) THEN [buffer |-> buffer, carry |-> carry]
  ELSE LET temp == buffer[j + 1] + carry
           b    == [buffer EXCEPT ![j + 1] = temp % 256]
       IN  IF temp \div 256 = 0 THEN [buffer |-> b, carry |-> 0]
           ELSE base62_decode_add(b, j + 1, temp \div 256)

\* while (carry > 0) { if (buffer_len >= buffer_capacity) double it;
\*                     buffer[buffer_len++] = carry % 256; carry /= 256; }
\* base62_decode_grow without the doubling of buffer_capacity.
RECURSIVE base62_decode_grow_fixed(_, _, _)
base62_decode_grow_fixed(buffer, cap, carry) ==
  IF carry > 0
  THEN base62_decode_grow_fixed(Append(buffer, carry % 256), cap,
                                carry \div 256)
  ELSE [buffer |-> buffer, cap |-> cap]

RECURSIVE base62_decode_grow(_, _, _)
base62_decode_grow(buffer, cap, carry) ==
  IF carry > 0
  THEN base62_decode_grow(Append(buffer, carry % 256),
                          IF Len(buffer) >= cap THEN cap * 2 ELSE cap,
                          carry \div 256)
  ELSE [buffer |-> buffer, cap |-> cap]

RECURSIVE base62_decode_loop(_, _, _, _)
base62_decode_loop(input, i, buffer, cap) ==
  IF i >= Len(input) THEN [buffer |-> buffer, cap |-> cap]
  ELSE LET digit == find_index(input[i + 1], base62_table)
           m     == base62_decode_mul(buffer, 0, 0)
           g1    == base62_decode_grow(m.buffer, cap, m.carry)
           a     == base62_decode_add(g1.buffer, 0, digit)
           g2    == base62_decode_grow(a.buffer, g1.cap, a.carry)
       IN  base62_decode_loop(input, i + 1, g2.buffer, g2.cap)

base62_decode(input, len0) ==
  IF Len(input) = 0
  THEN [ret |-> "null", out |-> <<>>, len |-> 0, oob |-> FALSE]
  ELSE IF \E i \in 1..Len(input) : find_index(input[i], base62_table) = -1
  THEN [ret |-> "null", out |-> <<>>, len |-> 0, oob |-> FALSE]
  ELSE LET b          == base62_decode_loop(input, 0, <<0>>, 2)
           buffer_len == Len(b.buffer)
           result     == Reverse(b.buffer)
           allocated  == buffer_len          \* malloc(buffer_len)
       IN  [ret |-> "ok", out |-> result, len |-> buffer_len,
            \* result[buffer_len] = '\0'
            oob |-> (buffer_len > b.cap) \/ (buffer_len >= allocated)]

(***************************************************************************)
(* Base85, encod_func.c 266-305 and decod_func.c 413-480.                  *)
(***************************************************************************)
\* The uint32_t value of the block that starts at C index i.
RECURSIVE base85_block_value(_, _, _, _)
base85_block_value(input, i, j, value) ==
  IF j >= 4 THEN value
  ELSE LET block_size == IF Len(input) - i > 4 THEN 4 ELSE Len(input) - i
       IN  base85_block_value(input, i, j + 1,
             IF j < block_size THEN U32Shl8Or(value, input[i + j + 1])
                               ELSE U32Shl8Or(value, 0))

\* for (j = 4; j >= 0; j--) { block[j] = base85_table[value % 85]; value /= 85; }
RECURSIVE base85_block(_, _, _)
base85_block(value, j, block) ==
  IF j < 0 THEN block
  ELSE LET d == U32DivMod85(value)
       IN  base85_block(d.q, j - 1, <<base85_table[d.r + 1]>> \o block)

RECURSIVE base85_encode_loop(_, _, _)
base85_encode_loop(input, i, output) ==
  IF i >= Len(input) THEN output
  ELSE base85_encode_loop(input, i + 4,
         output \o base85_block(
                     base85_block_value(input, i, 0, [hi |-> 0, lo |-> 0]),
                     4, <<>>))

base85_encode(input) == base85_encode_loop(input, 0, <<>>)

\* IsSpace without the test for '\t'.
IsSpace_notab(c) == c \in {32, 10, 13}

IsSpace(c) == c \in {32, 10, 13, 9}

\* cleaned_input: the input without ' ', '\n', '\r', '\t'.
cleaned(input) == SelectSeq(input, LAMBDA c : ~IsSpace(c))

\* value = value * 85 + (pos - base85_table) over the 5 symbols of a group,
\* on limbs; found is FALSE when strchr returns NULL.  hi is left unreduced,
\* as in a 64-bit unsigned long; a 32-bit unsigned long reduces it modulo
\* 2^16, and the four bytes unpacked below are the same in both.
RECURSIVE base85_group_value(_, _, _)
base85_group_value(g, j, value) ==
  IF j >= 5 THEN [found |-> TRUE, value |-> value]
  ELSE LET pos == strchr_index(base85_table, g[j + 1])
           t   == value.lo * 85 + pos
       IN  IF pos = -1 THEN [found |-> FALSE, value |-> value]
           ELSE base85_group_value(g, j + 1,
                  [hi |-> value.hi * 85 + t \div Pow16, lo |-> t % Pow16])

\* base85_unpack with the four bytes stored least significant first.
base85_unpack_le(value) ==
  << value.lo % 256, (value.lo \div 256) % 256,
     value.hi % 256, (value.hi \div 256) % 256 >>

\* (value >> 24) & 0xFF, (value >> 16) & 0xFF, (value >> 8) & 0xFF, value & 0xFF
base85_unpack(value) ==
  << (value.hi \div 256) % 256, value.hi % 256,
     (value.lo \div 256) % 256, value.lo % 256 >>

RECURSIVE base85_decode_loop(_, _, _)
base85_decode_loop(cleaned_input, i, output) ==
  IF i >= Len(cleaned_input) THEN [failed |-> FALSE, output |-> output]
  ELSE LET v == base85_group_value(SubSeq(cleaned_input, i + 1, i + 5),
                                   0, [hi |-> 0, lo |-> 0])
       IN  IF ~v.found THEN [failed |-> TRUE, output |-> output]
           ELSE base85_decode_loop(cleaned_input, i + 5,
                                   output \o base85_unpack(v.value))

base85_decode(input, len0) ==
  IF Len(input) = 0
  THEN [ret |-> "null", out |-> <<>>, len |-> 0, oob |-> FALSE]
  ELSE LET cleaned_input == cleaned(input)
           cleaned_len   == Len(cleaned_input)
           output_len    == (cleaned_len \div 5) * 4   \* also the malloc size
           r             == base85_decode_loop(cleaned_input, 0, <<>>)
       IN  IF cleaned_len % 5 # 0
           THEN [ret |-> "null", out |-> <<>>, len |-> 0, oob |-> FALSE]
           ELSE IF r.failed
           THEN [ret |-> "null", out |-> <<>>, len |-> 0, oob |-> FALSE]
           \* output[output_index++] = '\0' with output_index = output_len
           ELSE [ret |-> "ok", out |-> r.output, len |-> output_len,
                 oob |-> Len(r.output) >= output_len]

(***************************************************************************)
(* The state machine: one call of an encoder on a payload, followed by the *)
(* matching decoder on the text it returned; or one call of a decoder on a *)
(* text supplied by the caller.                                            *)
(***************************************************************************)
VARIABLES
  pc,     \* "idle", "encoded" (an encoder has returned), "decoded"
  fmt,    \* the radix of the codec called: 16, 32, 58, 62, 64, 85 (0: none)
  src,    \* where text comes from: "none", "encoder" or "caller"
  input,  \* the payload handed to the encoder
  text,   \* the text the encoder returned, or the text handed to the decoder
  res,    \* what the decoder returned: [ret, out, len, oob]
  heap    \* "intact", or "corrupt" once a byte stored out of bounds has hit
          \* memory the allocator or another object owns

vars == <<pc, fmt, src, input, text, res, heap>>

\* Payload bytes and text characters the inputs are drawn from.
ByteVals == {0, 1, 58, 255}
TextChars == {0, 32, 49, 61, 65, 126}   \* NUL ' ' '1' '=' 'A' '~'

SeqsUpTo(S, n) == UNION {[1..k -> S] : k \in 0..n}

\* "Man", "Hello", AB CD, 00 AB CD, 00 00 00 00
KnownPayloads ==
  { <<77, 97, 110>>, <<72, 101, 108, 108, 111>>, <<171, 205>>,
    <<0, 171, 205>>, <<0, 0, 0, 0>> }

\* "TWFu", "ABCD", "ABC", "!!!!!"
KnownTexts ==
  { <<84, 87, 70, 117>>, <<65, 66, 67, 68>>, <<65, 66, 67>>,
    <<33, 33, 33, 33, 33>> }

Payloads == SeqsUpTo(ByteVals, MaxLen) \cup KnownPayloads
Texts == SeqsUpTo(TextChars, MaxTextLen) \cup KnownTexts

\* Further texts of the caller's, per decoder.
\* Base16: upper- and lower-case hexadecimal digits, '0' 'F' 'a' 'f'.
HexTexts == SeqsUpTo({48, 70, 97, 102}, MaxTextLen)

\* Base32: one group of k data symbols ('A', '7') followed by up to 8 - k
\* pad symbols; and a group that holds pad symbols followed by more symbols.
GroupTexts32 ==
  UNION { { d \o Fill(PadChar, p) : p \in 0..(8 - Len(d)) } :
            d \in SeqsUpTo({65, 55}, 8) }

TwoGroupTexts32 ==
  { Fill(65, k) \o Fill(PadChar, 8 - k) \o t :
      k \in 1..7, t \in {<<65, 65>>, Fill(65, 8)} }

\* Base64: two groups over 'A' and '='.
TwoGroupTexts64 ==
  { g1 \o g2 : g1 \in [1..4 -> {65, PadChar}], g2 \in [1..4 -> {65, PadChar}] }

\* Base85: a text over '!' and 'A' with one space, tab, LF or CR put in.
SpacedTexts85 ==
  UNION { { SubSeq(b, 1, p) \o <<w>> \o SubSeq(b, p + 1, Len(b)) :
              p \in 0..Len(b), w \in {32, 9, 10, 13} } :
            b \in SeqsUpTo({33, 65}, MaxTextLen) }

\* Texts of the largest digit of the radix ('z' in Base58 and in Base62),
\* with the zero digit ('1', '0') among them.
LargeTexts58 == SeqsUpTo({122, 49}, MaxTextLen)

LargeTexts62 == SeqsUpTo({122, 48}, MaxTextLen)

\* Groups of five over '!' (digit 0), 'u' (digit 84) and 'z' (digit 89).
GroupTexts85 == [1..5 -> {33, 117, 122}]

ExtraTexts(f) ==
  CASE f = 16 -> HexTexts
    [] f = 32 -> GroupTexts32 \cup TwoGroupTexts32
    [] f = 58 -> LargeTexts58
    [] f = 62 -> LargeTexts62
    [] f = 64 -> TwoGroupTexts64
    [] f = 85 -> SpacedTexts85 \cup GroupTexts85
    [] OTHER -> {}

\* The caller's value of the variable output_len points to, before the call.
OutputLen0 == {0, 7}

NoRes == [ret |-> "none", out |-> <<>>, len |-> -1, oob |-> FALSE]

Init ==
  /\ pc = "idle"
  /\ fmt = 0
  /\ src = "none"
  /\ input = <<>>
  /\ text = <<>>
  /\ res = NoRes
  /\ heap = "intact"

\* An encoder has been called on payload P and returned the text t.
Encoded(f, P, t) ==
  /\ pc = "idle"
  /\ pc' = "encoded"
  /\ fmt' = f
  /\ src' = "encoder"
  /\ input' = P
  /\ text' = t
  /\ UNCHANGED <<res, heap>>

\* The text a decoder of format f is called on: the text its encoder just
\* returned, or any text of the caller's.
DecoderInputs(f) ==
  IF pc = "encoded" /\ fmt = f THEN {text}
  ELSE IF pc = "idle" THEN Texts \cup ExtraTexts(f)
  ELSE {}

\* A decoder has been called on T and returned r.  A byte stored beyond the
\* allocation is undefined behaviour: the store does not trap in the builds
\* of the repository (gcc without instrumentation), the call returns what it
\* computed, and the stray byte either falls into the allocator's slack or
\* damages memory that is not the buffer's.
Decoded(f, T, r) ==
  /\ pc' = "decoded"
  /\ fmt' = f
  /\ src' = IF pc = "encoded" THEN "encoder" ELSE "caller"
  /\ text' = T
  /\ res' = r
  /\ heap' \in (IF r.oob THEN {"intact", "corrupt"} ELSE {"intact"})
  /\ UNCHANGED input

Encode16 ==
  /\ pc = "idle"
  /\ \E P \in Payloads : Encoded(16, P, base16_encode(P))
Encode32 ==
  /\ pc = "idle"
  /\ \E P \in Payloads : Encoded(32, P, base32_encode(P))
Encode58 ==
  /\ pc = "idle"
  /\ \E P \in Payloads : Encoded(58, P, base58_encode(P))
Encode62 ==
  /\ pc = "idle"
  /\ \E P \in Payloads : Encoded(62, P, base62_encode(P))
Encode64 ==
  /\ pc = "idle"
  /\ \E P \in Payloads : Encoded(64, P, base64_encode(P))
Encode85 ==
  /\ pc = "idle"
  /\ \E P \in Payloads : Encoded(85, P, base85_encode(P))

Decode16 ==
  /\ pc # "decoded"
  /\ \E T \in DecoderInputs(16) : Decoded(16, T, base16_decode(T))
Decode32 ==
  /\ pc # "decoded"
  /\ \E T \in DecoderInputs(32), len0 \in OutputLen0 :
        Decoded(32, T, base32_decode(T, len0))
Decode58 ==
  /\ pc # "decoded"
  /\ \E T \in DecoderInputs(58), len0 \in OutputLen0 :
        Decoded(58, T, base58_decode(T, len0))
Decode62 ==
  /\ pc # "decoded"
  /\ \E T \in DecoderInputs(62), len0 \in OutputLen0 :
        Decoded(62, T, base62_decode(T, len0))
Decode64 ==
  /\ pc # "decoded"
  /\ \E T \in DecoderInputs(64), len0 \in OutputLen0 :
        Decoded(64, T, base64_decode(T, len0))
Decode85 ==
  /\ pc # "decoded"
  /\ \E T \in DecoderInputs(85), len0 \in OutputLen0 :
        Decoded(85, T, base85_decode(T, len0))

Next ==
  \/ Encode16 \/ Encode32 \/ Encode58 \/ Encode62 \/ Encode64 \/ Encode85
  \/ Decode16 \/ Decode32 \/ Decode58 \/ Decode62 \/ Decode64 \/ Decode85

Spec == Init /\ [][Next]_vars

TypeOK ==
  /\ pc \in {"idle", "encoded", "decoded"}
  /\ fmt \in {0, 16, 32, 58, 62, 64, 85}
  /\ src \in {"none", "encoder", "caller"}
  /\ res.ret \in {"none", "ok", "null"}
  /\ heap \in {"intact", "corrupt"}
  /\ \A i \in 1..Len(res.out) : res.out[i] \in 0..255

(***************************************************************************)
(* Reference notions the properties are stated with.                       *)
(***************************************************************************)
\* A decoder was called on the text its own encoder returned for input.
RoundTrip(f) == pc = "decoded" /\ src = "encoder" /\ fmt = f

\* The decoder returned a buffer holding exactly the bytes P.
Returns(P) == res.ret = "ok" /\ res.out = P

Table(f) ==
  CASE f = 16 -> base16_table [] f = 32 -> base32_table
    [] f = 58 -> base58_table [] f = 62 -> base62_table
    [] f = 64 -> base64_table [] f = 85 -> base85_table

Alphabet(f) == {Table(f)[i] : i \in 1..Len(Table(f))}

\* Positional base conversion by schoolbook long division: the digits ds
\* (most significant first, radix from) are divided by the radix to; the
\* remainders are the digits of the same number in radix to.
RECURSIVE StripZeros(_)
StripZeros(ds) ==
  IF ds # <<>> /\ Head(ds) = 0 THEN StripZeros(Tail(ds)) ELSE ds

RECURSIVE LongDiv(_, _, _, _, _)
LongDiv(ds, from, to, q, rem) ==
  IF ds = <<>> THEN [q |-> q, rem |-> rem]
  ELSE LET cur == rem * from + Head(ds)
       IN  LongDiv(Tail(ds), from, to, Append(q, cur \div to), cur % to)

RECURSIVE Convert(_, _, _)
Convert(ds, from, to) ==
  IF StripZeros(ds) = <<>> THEN <<>>
  ELSE LET d == LongDiv(StripZeros(ds), from, to, <<>>, 0)
       IN  Append(Convert(d.q, from, to), d.rem)

\* The digit values of a text over the alphabet of format f.
Digits(T, f) == [i \in 1..Len(T) |-> find_index(T[i], Table(f))]

\* T without its first k characters.
Drop(T, k) == SubSeq(T, k + 1, Len(T))

(***************************************************************************)
(* C1 - Base58 round trip: for every payload P, also one that starts with  *)
(* zero bytes followed by non-zero bytes, base58_decode(base58_encode(P))  *)
(* succeeds and returns exactly the bytes of P, with the length of P.      *)
(* The code violates it: the zero digits that stand for the leading zero   *)
(* bytes are reused by the conversion of the bytes that follow.            *)
(***************************************************************************)
C1_Base58RoundTrip ==
  RoundTrip(58) => Returns(input) /\ res.len = Len(input)

(***************************************************************************)
(* C2 - Base58 encode keeps leading zeros positionally: a payload of z     *)
(* zero bytes followed by R (empty or starting with a non-zero byte) is    *)
(* encoded as z copies of '1' followed by base58_encode(R).  Violated by   *)
(* the code for z > 0 and R not empty.                                     *)
(***************************************************************************)
C2_Base58LeadingZeros ==
  (pc = "encoded" /\ fmt = 58) =>
     LET z == LeadingCount(input, 0)
     IN  text = Fill(49, z) \o base58_encode(Drop(input, z))

(***************************************************************************)
(* C3 - Base58 decode puts the zero prefix first: for a valid text of z    *)
(* leading '1' followed by T, base58_decode returns z zero bytes at the    *)
(* start of the result, followed by the big-endian bytes of the number T   *)
(* encodes.  Violated by the code, whose final reversal moves the zero     *)
(* bytes behind the number.                                                *)
(***************************************************************************)
C3_Base58DecodeZeroPrefix ==
  (pc = "decoded" /\ fmt = 58
     /\ \A i \in 1..Len(text) : text[i] \in Alphabet(58)) =>
     LET z == LeadingCount(text, 49)
     IN  Returns(Fill(0, z) \o Convert(Digits(Drop(text, z), 58), 58, 256))

(***************************************************************************)
(* C4 - Base32 round trip: for every payload P of every length n,          *)
(* base32_decode(base32_encode(P)) returns exactly the n bytes of P.       *)
(* Violated by the code when n mod 5 = 4: the decoder keys the fifth byte  *)
(* off symbol 7 of the group instead of symbol 8.                          *)
(***************************************************************************)
C4_Base32RoundTrip ==
  RoundTrip(32) => Returns(input) /\ res.len = Len(input)

(***************************************************************************)
(* C5 - Base62 round trip: for every payload P, also one whose first byte  *)
(* is zero, base62_decode(base62_encode(P)) succeeds and returns exactly   *)
(* the bytes of P.  Violated by the code: leading zero bytes do not change *)
(* the number and are lost, and the empty text is refused.                 *)
(***************************************************************************)
C5_Base62RoundTrip ==
  RoundTrip(62) => Returns(input) /\ res.len = Len(input)

(***************************************************************************)
(* C6 - Base64 round trip: for every payload P of every length n,          *)
(* base64_decode(base64_encode(P)) returns exactly the n bytes of P;       *)
(* "Man" is encoded as "TWFu" and "TWFu" is decoded as "Man".              *)
(***************************************************************************)
C6_Base64RoundTrip ==
  /\ RoundTrip(64) => Returns(input) /\ res.len = Len(input)
  /\ (pc = "encoded" /\ fmt = 64 /\ input = <<77, 97, 110>>) =>
        text = <<84, 87, 70, 117>>
  /\ (pc = "decoded" /\ fmt = 64 /\ text = <<84, 87, 70, 117>>) =>
        Returns(<<77, 97, 110>>) /\ res.len = 3

\* A payload with a two-byte tail came back through "xxx=".
C6_Witness ==
  /\ RoundTrip(64) /\ Len(input) = 5
  /\ text[8] = PadChar /\ text[7] # PadChar
  /\ res.ret = "ok" /\ Len(res.out) = 5

(***************************************************************************)
(* C7 - Base16 round trip: base16_encode emits 2n symbols, for each byte   *)
(* the symbol of its high nibble and then the symbol of its low nibble,    *)
(* from "0123456789ABCDEF", and base16_decode of that text returns the n   *)
(* bytes of the payload.                                                   *)
(***************************************************************************)
HexDigits == <<48, 49, 50, 51, 52, 53, 54, 55, 56, 57, 65, 66, 67, 68, 69, 70>>

C7_Base16RoundTrip ==
  /\ (src = "encoder" /\ fmt = 16) =>
        /\ Len(text) = 2 * Len(input)
        /\ \A i \in 1..Len(input) :
              /\ text[2 * i - 1] = HexDigits[(input[i] \div 16) + 1]
              /\ text[2 * i] = HexDigits[(input[i] % 16) + 1]
  /\ RoundTrip(16) => Returns(input)

\* AB CD was encoded as "ABCD" and decoded back.
C7_Witness ==
  /\ RoundTrip(16) /\ input = <<171, 205>>
  /\ text = <<65, 66, 67, 68>> /\ res.ret = "ok" /\ res.out = <<171, 205>>

(***************************************************************************)
(* C8 - Base85 encode-then-decode: for every non-empty payload P of length *)
(* n, base85_decode(base85_encode(P)) succeeds and returns P followed by   *)
(* (4 - n mod 4) mod 4 zero bytes; the length returned is a multiple of 4  *)
(* and the result is P exactly when n is a multiple of 4; four zero bytes  *)
(* are encoded as "!!!!!" and "!!!!!" is decoded as four zero bytes.       *)
(***************************************************************************)
C8_Base85EncodeDecode ==
  /\ (RoundTrip(85) /\ input # <<>>) =>
        /\ Returns(input \o Fill(0, (4 - (Len(input) % 4)) % 4))
        /\ res.len = Len(res.out)
        /\ res.len % 4 = 0
        /\ (res.out = input <=> Len(input) % 4 = 0)
  /\ (pc = "encoded" /\ fmt = 85 /\ input = <<0, 0, 0, 0>>) =>
        text = <<33, 33, 33, 33, 33>>
  /\ (pc = "decoded" /\ fmt = 85 /\ text = <<33, 33, 33, 33, 33>>) =>
        Returns(<<0, 0, 0, 0>>) /\ res.len = 4

\* A payload of 5 bytes came back as 8 bytes.
C8_Witness ==
  /\ RoundTrip(85) /\ Len(input) = 5 /\ input[5] # 0
  /\ Len(text) = 10 /\ res.ret = "ok" /\ res.len = 8

(***************************************************************************)
(* C9 - Zero length: for every format, encoding the empty payload returns  *)
(* the empty text, and decoding the empty text succeeds with an empty      *)
(* payload of length 0 instead of reporting a failure.  Violated by        *)
(* base62_decode and base85_decode, which return NULL for an empty text.   *)
(***************************************************************************)
C9_ZeroLength ==
  /\ (pc = "encoded" /\ input = <<>>) => text = <<>>
  /\ (pc = "decoded" /\ text = <<>>) =>
        Returns(<<>>) /\ (fmt # 16 => res.len = 0)

(***************************************************************************)
(* C10 - Invalid input: for every format, decoding a text that contains a  *)
(* character absent from the format's alphabet (and, for Base32/Base64,    *)
(* different from '=') fails.  Violated by base85_decode, which takes the  *)
(* NUL character for a digit and drops white space.                        *)
(***************************************************************************)
HasInvalidChar(T, f) ==
  \E i \in 1..Len(T) :
     /\ T[i] \notin Alphabet(f)
     /\ f \in {32, 64} => T[i] # PadChar

C10_InvalidInputFails ==
  (pc = "decoded" /\ HasInvalidChar(text, fmt)) => res.ret = "null"

(***************************************************************************)
(* C11 - Alphabet size: each alphabet table holds exactly as many symbols  *)
(* as its radix (16, 32, 58, 62, 64, 85) and its symbols are pairwise      *)
(* distinct.  Violated by base85_table, which holds 90 symbols ('!'..'z'). *)
(***************************************************************************)
C11_AlphabetSize ==
  (fmt # 0) =>
     /\ Len(Table(fmt)) = fmt
     /\ \A i, j \in 1..Len(Table(fmt)) :
           i # j => Table(fmt)[i] # Table(fmt)[j]

(***************************************************************************)
(* C12 - Alphabet bijection: the reverse lookup of a format's decoder maps *)
(* symbols[i] to i for every valid index i, and reports 'not found' for    *)
(* every character that is not a symbol of the table, NUL included; for    *)
(* find_index and for the strchr lookup of base85_decode.  Stated of every *)
(* character of a text a decoder was given.  Violated by the strchr        *)
(* lookup, which finds NUL at the table's terminator.                      *)
(***************************************************************************)
\* The lookup the decoder of format f applies to a character.
Lookup(f, c) ==
  IF f = 85 THEN strchr_index(base85_table, c) ELSE find_index(c, Table(f))

C12_AlphabetBijection ==
  (pc = "decoded") =>
     \A k \in 1..Len(text) :
        LET c == text[k]
        IN  /\ (\E i \in 1..Len(Table(fmt)) : Table(fmt)[i] = c) =>
                  /\ Table(fmt)[Lookup(fmt, c) + 1] = c
                  /\ Table(fmt)[find_index(c, Table(fmt)) + 1] = c
            /\ (\A i \in 1..Len(Table(fmt)) : Table(fmt)[i] # c) =>
                  /\ Lookup(fmt, c) = -1
                  /\ find_index(c, Table(fmt)) = -1

(***************************************************************************)
(* C13 - Base16 decode: base16_decode fails exactly when the input length  *)
(* m is odd or some input character is not one of "0123456789ABCDEF"       *)
(* (lower-case a-f is rejected); otherwise it returns m/2 bytes, byte i    *)
(* being 16 * value(input[2i]) + value(input[2i+1]).                       *)
(***************************************************************************)
IsHexDigit(c) == c \in 48..57 \/ c \in 65..70

HexValue(c) == IF c \in 48..57 THEN c - 48 ELSE c - 55

C13_Base16Decode ==
  (pc = "decoded" /\ fmt = 16) =>
     LET m   == Len(text)
         bad == m % 2 # 0 \/ \E k \in 1..m : ~IsHexDigit(text[k])
     IN  /\ res.ret = "null" <=> bad
         /\ ~bad =>
              /\ res.ret = "ok"
              /\ Len(res.out) = m \div 2
              /\ \A i \in 1..(m \div 2) :
                    res.out[i] = 16 * HexValue(text[2 * i - 1])
                                 + HexValue(text[2 * i])

\* "Ff" was refused.
C13_Witness ==
  pc = "decoded" /\ fmt = 16 /\ text = <<70, 102>> /\ res.ret = "null"

(***************************************************************************)
(* C14 - Base85 decode input handling: base85_decode removes every space,  *)
(* tab, CR and LF before processing, so that a valid text with such        *)
(* characters put in is decoded to the same result as without them, and it *)
(* fails whenever the number of remaining characters is not a multiple of  *)
(* 5.                                                                      *)
(***************************************************************************)
NoWhiteSpace(T) == SelectSeq(T, LAMBDA c : c # 32 /\ c # 9 /\ c # 13 /\ c # 10)

C15_Base32ByteCount ==
  (pc = "decoded" /\ fmt = 32 /\ res.ret = "ok" /\ Len(text) <= 8) =>
     LET k == Len(text) - LeadingCount(Reverse(text), PadChar)
     IN  (k \in {2, 4, 5, 7, 8}
            /\ \A i \in 1..k : text[i] # PadChar) =>
         (res.len = (5 * k) \div 8 /\ Len(res.out) = (5 * k) \div 8)

(***************************************************************************)
(* C16 - Base64 decode grouping: an input whose length is not a multiple   *)
(* of 4 is decoded as if it were right-padded with '=' to the next         *)
(* multiple of 4; a group of 4 symbols yields 3 bytes when it has no pad,  *)
(* 2 bytes when only symbol 4 is pad, 1 byte when symbols 3 and 4 are pad; *)
(* the length reported is the sum over the groups.                         *)
(***************************************************************************)
RightPadded(T, g) == T \o Fill(PadChar, ((Len(T) + g - 1) \div g) * g - Len(T))

\* The group is one of the three shapes the statement names.
NamedShape64(g) ==
  \/ \A j \in 1..4 : g[j] # PadChar
  \/ g[4] = PadChar /\ \A j \in 1..3 : g[j] # PadChar
  \/ g[3] = PadChar /\ g[4] = PadChar

ByteCount64(g) ==
  IF g[3] = PadChar /\ g[4] = PadChar THEN 1
  ELSE IF g[4] = PadChar THEN 2 ELSE 3

RECURSIVE SumByteCount64(_)
SumByteCount64(P) ==
  IF P = <<>> THEN 0
  ELSE ByteCount64(SubSeq(P, 1, 4)) + SumByteCount64(Drop(P, 4))

C16_Base64Grouping ==
  (pc = "decoded" /\ fmt = 64) =>
     LET P  == RightPadded(text, 4)
         rp == base64_decode(P, 0)
     IN  /\ res.ret = rp.ret
         /\ res.ret = "ok" => res.out = rp.out /\ res.len = rp.len
         /\ (res.ret = "ok"
               /\ \A q \in 0..((Len(P) \div 4) - 1) :
                     NamedShape64(SubSeq(P, 4 * q + 1, 4 * q + 4))) =>
            (res.len = SumByteCount64(P) /\ Len(res.out) = res.len)

\* Five symbols were decoded as "AAAA" and "A===": 3 + 1 bytes.
C16_Witness ==
  /\ pc = "decoded" /\ fmt = 64 /\ Len(text) = 5
  /\ \A k \in 1..5 : text[k] # PadChar
  /\ res.ret = "ok" /\ res.len = 4

(***************************************************************************)
(* C17 - Base32/Base64 decode accepts '=' only in the final group: a text  *)
(* with '=' inside a non-final group, or with a data symbol after a '=',   *)
(* is rejected.  Violated by the code, which decodes every '=' as digit 0  *)
(* wherever it stands.                                                     *)
(***************************************************************************)
MisplacedPad(T, g) ==
  \E i \in 1..Len(T) :
     /\ T[i] = PadChar
     /\ \/ i <= (((Len(T) + g - 1) \div g) - 1) * g
        \/ \E j \in (i + 1)..Len(T) : T[j] # PadChar

C17_PadOnlyInFinalGroup ==
  /\ (pc = "decoded" /\ fmt = 32 /\ MisplacedPad(text, 8)) => res.ret = "null"
  /\ (pc = "decoded" /\ fmt = 64 /\ MisplacedPad(text, 4)) => res.ret = "null"

(***************************************************************************)
(* C18 - Base64 encode shape: for a payload of length n, base64_encode     *)
(* returns 4 * ceil(n/3) characters; (3 - n mod 3) mod 3 of them are '=',  *)
(* all at the very end; every other character is the alphabet symbol of    *)
(* the corresponding 6-bit group of the payload's bit stream, most         *)
(* significant bit first, missing bytes read as zero.                      *)
(***************************************************************************)
\* Bit b (from 0, most significant bit of the first byte first) of the bit
\* stream of P; 0 beyond the end of P.
Bit(P, b) ==
  IF b \div 8 + 1 > Len(P) THEN 0
  ELSE (P[b \div 8 + 1] \div Pow2(7 - (b % 8))) % 2

\* The value of the w bits of the bit stream of P that start at bit b.
RECURSIVE BitGroup(_, _, _)
BitGroup(P, b, w) ==
  IF w = 0 THEN 0
  ELSE 2 * BitGroup(P, b, w - 1) + Bit(P, b + w - 1)

C19_Base32EncodeShape ==
  (pc = "encoded" /\ fmt = 32) =>
     /\ Len(text) = (8 * Len(input) + 4) \div 5
     /\ \A i \in 1..Len(text) :
           /\ text[i] = base32_table[BitGroup(input, 5 * (i - 1), 5) + 1]
           /\ text[i] # PadChar
     /\ input = <<72, 101, 108, 108, 111>> =>
           text = <<74, 66, 83, 87, 89, 51, 68, 80>>

\* "Hello" was encoded: the fifth byte pushes the first out of the 32 bits.
C19_Witness ==
  /\ pc = "encoded" /\ fmt = 32 /\ input = <<72, 101, 108, 108, 111>>
  /\ Len(text) = 8

base58_encode_capacity(len) == (len * 138) \div 100 + 1

\* malloc(len * 2)
base62_encode_capacity(len) == len * 2

\* size = (len - zero_count) * 733 / 1000 + 1
base58_decode_size(len, zero_count) == ((len - zero_count) * 733) \div 1000 + 1

\* One while loop of base62_decode, entered with the digits before, the
\* capacity cap and a carry: it writes at most the index Len(before), below
\* the capacity it leaves, and keeps the digits it found.
GrowthWithinCapacity(before, cap, carry) ==
  LET g == base62_decode_grow(before, cap, carry)
  IN  /\ Len(before) <= cap
      /\ Len(g.buffer) <= Len(before) + 1
      /\ Len(g.buffer) <= g.cap
      /\ SubSeq(g.buffer, 1, Len(before)) = before

\* The iteration of base62_decode on the symbol after the first n of T.
StepWithinCapacity62(T, n) ==
  LET b     == base62_decode_loop(SubSeq(T, 1, n), 0, <<0>>, 2)
      digit == find_index(T[n + 1], base62_table)
      m     == base62_decode_mul(b.buffer, 0, 0)
      g1    == base62_decode_grow(m.buffer, b.cap, m.carry)
      a     == base62_decode_add(g1.buffer, 0, digit)
  IN  /\ GrowthWithinCapacity(m.buffer, b.cap, m.carry)
      /\ GrowthWithinCapacity(a.buffer, g1.cap, a.carry)

C21_AccumulatorCapacity ==
  /\ (pc = "encoded" /\ fmt = 58) =>
        Len(base58_encode_digits(input)) <= base58_encode_capacity(Len(input))
  /\ (pc = "encoded" /\ fmt = 62) =>
        Len(base62_encode_digits(input)) <= base62_encode_capacity(Len(input))
  /\ (pc = "decoded" /\ fmt = 58) =>
        LET z == LeadingCount(text, base58_table[1])
        IN  Len(base58_decode_loop(text, z, <<>>).output)
              <= base58_decode_size(Len(text), z)
  /\ (pc = "decoded" /\ fmt = 62 /\ res.ret = "ok") =>
        \A n \in 0..(Len(text) - 1) : StepWithinCapacity62(text, n)

\* "zzzzz" was decoded by base62_decode to four bytes: the buffer of two
\* grew to four.
C21_Witness ==
  /\ pc = "decoded" /\ fmt = 62 /\ text = <<122, 122, 122, 122, 122>>
  /\ res.ret = "ok" /\ res.len = 4

(***************************************************************************)
(* C22 - Returned-buffer bounds: every byte a decoder writes into the      *)
(* buffer it returns, the terminating zero byte that base58_decode,        *)
(* base62_decode and base85_decode write after the payload included, is at *)
(* an index strictly below the number of bytes allocated for that buffer.  *)
(* Violated by the code: the terminator is stored at the index that equals *)
(* the allocation's size.                                                  *)
(***************************************************************************)
C22_ReturnedBufferBounds ==
  (pc = "decoded" /\ res.ret = "ok") => ~res.oob

(***************************************************************************)
(* C23 - Base85 decode stays within 32 bits: for every group of 5 symbols  *)
(* that base85_decode accepts, each symbol's digit is below 85 and the     *)
(* value sum(digit_j * 85^(4-j)) is at most 2^32 - 1, so that the 4 bytes  *)
(* emitted are that value big-endian and encoding them gives back the 5    *)
(* symbols; a group whose value does not fit is rejected, not reduced      *)
(* modulo 2^32.  Violated by the code: the table has digits up to 89 (and  *)
(* NUL is digit 90), and a value of 2^32 or more is reduced.               *)
(***************************************************************************)
\* The value of the radix-85 digits ds as radix-256 digits, most
\* significant first, without leading zeros.
Value256(ds) == Convert(ds, 85, 256)

GroupWithin32Bits(g, bytes) ==
  LET ds == [j \in 1..5 |-> strchr_index(base85_table, g[j])]
      v  == Value256(ds)
  IN  /\ \A j \in 1..5 : ds[j] < 85
      /\ Len(v) <= 4
      /\ bytes = Fill(0, 4 - Len(v)) \o v
      /\ base85_encode(bytes) = g

C23_Base85Within32Bits ==
  (pc = "decoded" /\ fmt = 85 /\ res.ret = "ok") =>
     LET V == NoWhiteSpace(text)
     IN  \A q \in 0..((Len(V) \div 5) - 1) :
            GroupWithin32Bits(SubSeq(V, 5 * q + 1, 5 * q + 5),
                              SubSeq(res.out, 4 * q + 1, 4 * q + 4))

(***************************************************************************)
(* C24 - Failure leaves a zero length: whenever base32_decode,             *)
(* base58_decode, base62_decode, base64_decode or base85_decode returns    *)
(* NULL, it has set *output_len to 0, whatever the caller had stored there *)
(* before the call.  Violated by base32_decode and base64_decode, which    *)
(* return NULL for an invalid character without storing to *output_len.    *)
(***************************************************************************)
C24_FailureZeroLength ==
  (pc = "decoded" /\ fmt \in {32, 58, 62, 64, 85} /\ res.ret = "null") =>
     res.len = 0

=============================================================================
